---------------------------- MODULE Spec2Model ----------------------------
(***************************************************************************)
(* State-machine model of two view components of pleroma-fe:               *)
(*   - EmojiInput   (src/src/components/navigation/navigation_pins.js,     *)
(*                   lines 143-470): caret tracking, suggestion list,      *)
(*                   keyboard navigation, blur/focus timers, nextTick      *)
(*                   callbacks;                                            *)
(*   - registration (src/src/components/registration/registration.js):     *)
(*                   submit and the promise continuations of register().   *)
(* Texts are sequences of one-character strings.  Every event handler is   *)
(* an operator from a component state (a record) and the event's inputs to *)
(* the component state after the handler has returned; callbacks that the  *)
(* code defers (setTimeout, $nextTick, promise continuations) are separate *)
(* steps.                                                                  *)
(***************************************************************************)
EXTENDS Integers, Sequences, FiniteSets, TLC

(***************************************************************************)
(* Bounds of the model.                                                    *)
(***************************************************************************)
\* longest text held by the input
MaxLen == 3
\* most setTimeout timers of onBlur pending at the same time
MaxTimers == 2
\* most setTimeout(0) timers of triggerShowPicker pending at the same time
MaxClickTimers == 1

Chars == {"a", " "}

Undefined == "undefined"

Texts == UNION {[1..n -> Chars] : n \in 0..MaxLen}

Min(a, b) == IF a < b THEN a ELSE b

(***************************************************************************)
(* JavaScript string primitives, 0-based and clamped as String.prototype   *)
(* .substring / .slice clamp their (non-negative) arguments.               *)
(***************************************************************************)
\* The number NaN: what undefined + n and NaN + n give.  It is no index;
\* it is falsy, and substring takes it for 0.
NaN == -1

\* Number + number, where the first may be NaN.
plus(a, b) == IF a = NaN THEN NaN ELSE a + b

substring(str, from, to) ==
  LET f == IF from = NaN THEN 0 ELSE Min(from, Len(str))
      t == IF to = NaN THEN 0 ELSE Min(to, Len(str))
  IN  IF f >= t THEN << >> ELSE SubSeq(str, f + 1, t)

IsPrefix(p, str) ==
  /\ Len(p) <= Len(str)
  /\ \A i \in 1..Len(p) : p[i] = str[i]

(***************************************************************************)
(* services/completion/completion.js (not among the source files).         *)
(* A word is a maximal run of whitespace or of non-whitespace characters;  *)
(* wordAtPosition returns the word covering the 0-based position with its  *)
(* 0-based start and exclusive end, or undefined when no word covers it.   *)
(***************************************************************************)
isWhitespace(c) == c = " "

NoWord(kind) == [kind |-> kind, word |-> << >>, start |-> 0, end |-> 0]

wordAtPosition(str, pos) ==
  IF pos < 0 \/ pos >= Len(str)
  THEN NoWord(Undefined)
  ELSE LET same(i) == isWhitespace(str[i + 1]) = isWhitespace(str[pos + 1])
           start == CHOOSE s \in 0..pos :
                      /\ \A i \in s..pos : same(i)
                      /\ (s = 0 \/ ~same(s - 1))
           end == CHOOSE e \in (pos + 1)..Len(str) :
                      /\ \A i \in pos..(e - 1) : same(i)
                      /\ (e = Len(str) \/ ~same(e))
       IN  [kind |-> "word", word |-> SubSeq(str, start + 1, end),
            start |-> start, end |-> end]

\* str.slice(0, toReplace.start) + replacement + str.slice(toReplace.end);
\* on an object without start/end both slices are the whole string.
replaceWord(str, toReplace, replacement) ==
  IF toReplace.kind = "word"
  THEN substring(str, 0, toReplace.start) \o replacement
         \o substring(str, toReplace.end, Len(str))
  ELSE str \o replacement \o str

(***************************************************************************)
(* The suggest prop: a function from the text at the caret to a list of    *)
(* suggestions.  The model uses one suggestor, a prefix filter over a pool *)
(* of six entries; imageUrl is optional.                                   *)
(***************************************************************************)
Pool ==
  << [displayText |-> <<"a","a","x">>, replacement |-> <<"a">>,
      imageUrl |-> "img1"],
     [displayText |-> <<"a","a","a","y">>, replacement |-> <<"a","a","a">>,
      imageUrl |-> Undefined],
     [displayText |-> <<"a","a","z">>, replacement |-> <<"a"," ">>,
      imageUrl |-> ""],
     [displayText |-> <<"a","a","a","a">>, replacement |-> <<" ">>,
      imageUrl |-> "img4"],
     [displayText |-> <<"a","a","v">>, replacement |-> <<"a","a">>,
      imageUrl |-> Undefined],
     [displayText |-> <<"a","a","w">>, replacement |-> <<"a">>,
      imageUrl |-> "img6"] >>

suggest(input) == SelectSeq(Pool, LAMBDA s : IsPrefix(input, s.displayText))

NoSuggestion == [displayText |-> << >>, replacement |-> << >>,
                 img |-> Undefined, highlighted |-> FALSE]

\* take(matchedSuggestions, 5)
SuggestionLimit == 5

(***************************************************************************)
(* State.  EmojiInput: the value prop (v-model: what the component emits   *)
(* with 'input' is what the parent passes back as value; the nested input  *)
(* has the same v-model, so what the user types becomes the value too),    *)
(* the data fields of data(), and the callbacks in flight: timers holds    *)
(* the ids of the pending blur timers, clickTimers counts the pending      *)
(* setTimeout(0) of triggerShowPicker, tick is the pending $nextTick       *)
(* callback with the position it captured.  elmFocused is the focus state  *)
(* of the nested input element.  prevented records whether the handler     *)
(* that ran last called e.preventDefault().                                *)
(* registration: the data fields user, error and registering, and the      *)
(* promises in flight (see the registration section).                      *)
(***************************************************************************)
VARIABLES value, caret, highlighted, focused, blurTimeout, showPicker,
          temporarilyHideSuggestions, spamMode, disableClickOutside,
          timers, clickTimers, tick, elmFocused, prevented,
          user, error, registering, requests, responses, handling,
          registered, logins, pushes, okSeen,
          users, credentials, mounted, suggestionsRequests,
          suggestionsPending, lookups, newUsers,
          pinnedNavItems, lists, navigation

emojiVars == <<value, caret, highlighted, focused, blurTimeout, showPicker,
               temporarilyHideSuggestions, spamMode, disableClickOutside,
               timers, clickTimers, tick, elmFocused, prevented>>

regVars == <<user, error, registering, requests, responses, handling,
             registered, logins, pushes, okSeen>>

whoVars == <<users, credentials, mounted, suggestionsRequests,
             suggestionsPending, lookups, newUsers>>

navVars == <<pinnedNavItems, lists, navigation>>

vars == <<emojiVars, regVars, whoVars, navVars>>

NoTick == [pending |-> FALSE, position |-> 0]

\* The EmojiInput state as one record, the argument of the handlers.  The
\* field threw is set by a handler that ends in an uncaught TypeError; the
\* component keeps the state the handler had reached.
This ==
  [value |-> value, caret |-> caret, highlighted |-> highlighted,
   focused |-> focused, blurTimeout |-> blurTimeout,
   showPicker |-> showPicker,
   temporarilyHideSuggestions |-> temporarilyHideSuggestions,
   spamMode |-> spamMode, disableClickOutside |-> disableClickOutside,
   timers |-> timers, clickTimers |-> clickTimers, tick |-> tick,
   elmFocused |-> elmFocused, prevented |-> prevented, threw |-> FALSE]

Becomes(s) ==
  /\ value' = s.value
  /\ caret' = s.caret
  /\ highlighted' = s.highlighted
  /\ focused' = s.focused
  /\ blurTimeout' = s.blurTimeout
  /\ showPicker' = s.showPicker
  /\ temporarilyHideSuggestions' = s.temporarilyHideSuggestions
  /\ spamMode' = s.spamMode
  /\ disableClickOutside' = s.disableClickOutside
  /\ timers' = s.timers
  /\ clickTimers' = s.clickTimers
  /\ tick' = s.tick
  /\ elmFocused' = s.elmFocused
  /\ prevented' = s.prevented

\* A fresh event: nothing prevented yet.
Event(s) == [s EXCEPT !.prevented = FALSE]

(***************************************************************************)
(* EmojiInput: computed properties.  A value a method computes once and    *)
(* reads several times (const len, const replacement, ...) is the          *)
(* parameter of a helper operator.                                         *)
(***************************************************************************)
\* Completion.wordAtPosition(...) || {}
orEmptyObject(word) == IF word.kind = Undefined THEN NoWord("empty") ELSE word

\* if (this.value && this.caret) ...; otherwise undefined
wordAtCaret(s) ==
  IF Len(s.value) > 0 /\ s.caret # 0 /\ s.caret # NaN
  THEN orEmptyObject(wordAtPosition(s.value, s.caret - 1))
  ELSE NoWord(Undefined)

\* (this.wordAtCaret || {}).word || ''
textAtCaret(s) == wordAtCaret(s).word

\* imageUrl || ''
imgOf(imageUrl) == IF imageUrl \in {Undefined, ""} THEN "" ELSE imageUrl

\* .map(({ imageUrl, ...rest }, index) => ({ ...rest, img, highlighted }))
mapSuggestion(suggestion, index, highlightedIndex) ==
  [displayText |-> suggestion.displayText,
   replacement |-> suggestion.replacement,
   img |-> imgOf(suggestion.imageUrl),
   highlighted |-> (index = highlightedIndex)]

\* The list without take(..., 5).
takeAndMap_all(matchedSuggestions, highlightedIndex) ==
  [i \in 1..Len(matchedSuggestions) |->
     mapSuggestion(matchedSuggestions[i], i - 1, highlightedIndex)]

\* take(matchedSuggestions, 5).map(...), [] for no match
takeAndMap(matchedSuggestions, highlightedIndex) ==
  IF Len(matchedSuggestions) <= 0
  THEN << >>
  ELSE [i \in 1..Min(SuggestionLimit, Len(matchedSuggestions)) |->
          mapSuggestion(matchedSuggestions[i], i - 1, highlightedIndex)]

suggestionsFor(text, highlightedIndex) ==
  IF text = substring(text, 0, 1)
  THEN << >>
  ELSE takeAndMap(suggest(text), highlightedIndex)

suggestions(s) == suggestionsFor(textAtCaret(s), s.highlighted)

showSuggestions(s) ==
  /\ s.focused
  /\ Len(suggestions(s)) > 0
  /\ ~s.showPicker
  /\ ~s.temporarilyHideSuggestions

(***************************************************************************)
(* EmojiInput: methods.  resize() only moves the panel in the DOM and      *)
(* changes no state of the component.                                      *)
(***************************************************************************)
\* setCaret ({ target: { selectionStart } })
setCaret(s, selectionStart) == [s EXCEPT !.caret = selectionStart]

\* The id setTimeout returns: the least id no pending timer has.
newTimer(s) ==
  CHOOSE id \in 1..(MaxTimers + 1) :
    /\ id \notin s.timers
    /\ \A other \in 1..(id - 1) : other \in s.timers

\* if (this.blurTimeout) { clearTimeout(this.blurTimeout); ... = null }
clearBlurTimeout(s) ==
  IF s.blurTimeout # 0
  THEN [s EXCEPT !.timers = @ \ {s.blurTimeout}, !.blurTimeout = 0]
  ELSE s

\* if (!this.spamMode) { this.showPicker = false }
closePickerUnlessSpam(s) ==
  IF ~s.spamMode THEN [s EXCEPT !.showPicker = FALSE] ELSE s

onFocus(s, selectionStart) ==
  [setCaret(closePickerUnlessSpam(clearBlurTimeout(s)), selectionStart)
     EXCEPT !.focused = TRUE, !.temporarilyHideSuggestions = FALSE]

\* this.input.elm.focus(): the element dispatches 'focus' (and so runs
\* onFocus) unless it has the focus already.
elmFocus(s, selectionStart) ==
  IF s.elmFocused
  THEN s
  ELSE onFocus([s EXCEPT !.elmFocused = TRUE], selectionStart)

\* this.blurTimeout = setTimeout(..., 200)
setBlurTimeout(s, id) == [s EXCEPT !.timers = @ \cup {id}, !.blurTimeout = id]

onBlur(s) == setBlurTimeout(s, newTimer(s))

\* The callback onBlur hands to setTimeout(..., 200).
blurTimer(s, id, selectionStart) ==
  setCaret([s EXCEPT !.timers = @ \ {id}, !.focused = FALSE], selectionStart)

cycleBackwardIn(s, len) ==
  IF len > 1
  THEN [s EXCEPT !.highlighted = IF s.highlighted - 1 < 0
                                 THEN len - 1
                                 ELSE s.highlighted - 1,
                 !.prevented = TRUE]
  ELSE [s EXCEPT !.highlighted = 0]

cycleBackward(s) == cycleBackwardIn(s, Len(suggestions(s)))

cycleForwardIn(s, len) ==
  IF len > 1
  THEN [s EXCEPT !.highlighted = IF s.highlighted + 1 >= len
                                 THEN 0
                                 ELSE s.highlighted + 1,
                 !.prevented = TRUE]
  ELSE [s EXCEPT !.highlighted = 0]

cycleForward(s) == cycleForwardIn(s, Len(suggestions(s)))

\* this.wordAtCaret.start: undefined on the object {} that wordAtCaret is
\* where no word covers the caret, so that adding a length to it gives NaN.
startOf(word) == IF word.kind = "word" THEN word.start ELSE NaN

\* replaceText from "const replacement" on: emit the new value, reset
\* highlighted, queue the $nextTick callback with the position after the
\* replacement, prevent the default.
replaceWith(s, word, replacement) ==
  [s EXCEPT !.value = replaceWord(s.value, word, replacement),
            !.highlighted = 0,
            !.tick = [pending |-> TRUE,
                      position |-> plus(startOf(word), Len(replacement))],
            !.prevented = TRUE]

\* replaceText inside "if (len > 0 || suggestion)".  Reading .replacement
\* of this.suggestions[this.highlighted] when that entry does not exist,
\* or .start of an undefined wordAtCaret, is a TypeError that ends the
\* handler.
replaceChosen(s, suggestion, list, word) ==
  IF \/ (suggestion = NoSuggestion /\ s.highlighted >= Len(list))
     \/ word.kind = Undefined
  THEN [s EXCEPT !.threw = TRUE]
  ELSE IF suggestion # NoSuggestion
  THEN replaceWith(s, word, suggestion.replacement)
  ELSE replaceWith(s, word, list[s.highlighted + 1].replacement)

replaceTextIn(s, suggestion, list, word) ==
  IF Len(word.word) = 1
  THEN s
  ELSE IF Len(list) > 0 \/ suggestion # NoSuggestion
  THEN replaceChosen(s, suggestion, list, word)
  ELSE s

\* replaceText (e, suggestion); suggestion is NoSuggestion when the caller
\* passes none.
replaceText(s, suggestion) ==
  replaceTextIn(s, suggestion, suggestions(s), wordAtCaret(s))

\* The callback replaceText and insert hand to $nextTick.
nextTickWith(s, position) == [s EXCEPT !.caret = position, !.tick = NoTick]

nextTick(s, selectionStart) ==
  nextTickWith(elmFocus(s, selectionStart), s.tick.position)

replaceIn(s, word, replacement) ==
  IF word.kind = Undefined
  THEN [s EXCEPT !.threw = TRUE]
  ELSE [s EXCEPT !.value = replaceWord(s.value, word, replacement),
                 !.caret = 0]

replace(s, replacement) == replaceIn(s, wordAtCaret(s), replacement)

insert(s, insertion, spam) ==
  [s EXCEPT !.spamMode = spam,
            !.value = substring(s.value, 0, s.caret) \o insertion
                        \o substring(s.value, s.caret, Len(s.value)),
            !.tick = [pending |-> TRUE,
                      position |-> plus(s.caret, Len(insertion))]]

onClick(s, suggestion) == replaceText(s, suggestion)

onKeyUp(s, key, selectionStart) ==
  [setCaret(s, selectionStart)
     EXCEPT !.temporarilyHideSuggestions = (key = "Escape")]

onPaste(s, selectionStart) == setCaret(s, selectionStart)

\* onKeyDown, statement by statement; e = { ctrlKey, shiftKey, key }.
\* if (key === 'Tab') ...
keyDownTab(s, e) ==
  IF ~s.temporarilyHideSuggestions /\ e.key = "Tab"
  THEN IF e.shiftKey THEN cycleBackward(s) ELSE cycleForward(s)
  ELSE s

\* if (key === 'ArrowUp') ... else if (key === 'ArrowDown') ...
keyDownArrow(s, e) ==
  IF ~s.temporarilyHideSuggestions /\ e.key = "ArrowUp"
  THEN cycleBackward(s)
  ELSE IF ~s.temporarilyHideSuggestions /\ e.key = "ArrowDown"
  THEN cycleForward(s)
  ELSE s

\* if (key === 'Enter') { if (!ctrlKey) { this.replaceText(e) } }
keyDownEnter(s, e) ==
  IF ~s.temporarilyHideSuggestions /\ e.key = "Enter" /\ ~e.ctrlKey
  THEN replaceText(s, NoSuggestion)
  ELSE s

\* if (key === 'Escape') ...; this.showPicker = false.  A TypeError in
\* replaceText has ended the handler before.
keyDownEscape(s, e, selectionStart) ==
  IF s.threw
  THEN s
  ELSE IF e.key = "Escape" /\ ~s.temporarilyHideSuggestions
  THEN [elmFocus(s, selectionStart) EXCEPT !.showPicker = FALSE]
  ELSE [s EXCEPT !.showPicker = FALSE]

\* selectionStart is read only if the handler gives the element the focus.
onKeyDown(s, e, selectionStart) ==
  keyDownEscape(keyDownEnter(keyDownArrow(keyDownTab(s, e), e), e),
                e, selectionStart)

\* onInput (e): text is e.target.value, selectionStart its caret.
\* mounted () adds no listener for 'input' and no method calls onInput:
\* no event runs it.
onInput(s, text, selectionStart) ==
  [setCaret(s, selectionStart) EXCEPT !.showPicker = FALSE, !.value = text]

\* An 'input' event of the nested input: its own v-model writes the text
\* typed to what the parent passes as value; no handler of the component
\* runs.
typed(s, text) == [s EXCEPT !.value = text]

\* onCompositionUpdate that also shows the suggestions again.
onCompositionUpdate_unhides(s, text, selectionStart) ==
  [setCaret(s, selectionStart)
     EXCEPT !.showPicker = FALSE, !.value = text,
            !.temporarilyHideSuggestions = FALSE]

\* onCompositionUpdate (e): text is e.target.value.
onCompositionUpdate(s, text, selectionStart) ==
  [setCaret(s, selectionStart) EXCEPT !.showPicker = FALSE, !.value = text]

triggerShowPicker(s) ==
  [s EXCEPT !.showPicker = TRUE,
            !.disableClickOutside = TRUE,
            !.clickTimers = @ + 1]

\* The callback triggerShowPicker hands to setTimeout(..., 0).
clickTimer(s) ==
  [s EXCEPT !.disableClickOutside = FALSE, !.clickTimers = @ - 1]

toggleShowPicker(s) == [s EXCEPT !.showPicker = ~s.showPicker]

togglePicker(s, selectionStart) ==
  toggleShowPicker(elmFocus(s, selectionStart))

onClickOutside(s) ==
  IF s.disableClickOutside THEN s ELSE [s EXCEPT !.showPicker = FALSE]

onStickerUploaded(s) == [s EXCEPT !.showPicker = FALSE]

onStickerUploadFailed(s) == [s EXCEPT !.showPicker = FALSE]

(***************************************************************************)
(* EmojiInput: the events.  Each action is one DOM event, one call of a    *)
(* method by the picker or the parent, or one deferred callback.  A        *)
(* $nextTick callback is a microtask: once queued it runs before any other *)
(* event or timer.  selectionStart is read from the element, whose text is *)
(* the value, so it lies within that text.                                 *)
(***************************************************************************)
Keys == {"Tab", "ArrowUp", "ArrowDown", "Enter", "Escape", "a"}

\* Every key alone, and the two modified keys the handler tells apart.
KeyEvents ==
  {[key |-> k, shiftKey |-> FALSE, ctrlKey |-> FALSE] : k \in Keys}
    \cup {[key |-> "Tab", shiftKey |-> TRUE, ctrlKey |-> FALSE],
          [key |-> "Enter", shiftKey |-> FALSE, ctrlKey |-> TRUE]}

Ready == ~tick.pending

Selection(text) == 0..Len(text)

\* The model holds texts of at most MaxLen characters, and caret
\* positions no greater.
Fits(s) == Len(s.value) <= MaxLen /\ s.tick.position <= MaxLen

Focus ==
  /\ Ready
  /\ \E sel \in Selection(value) :
       Becomes(onFocus([Event(This) EXCEPT !.elmFocused = TRUE], sel))
  /\ UNCHANGED <<regVars, whoVars, navVars>>

Blur ==
  /\ Ready
  /\ Cardinality(timers) < MaxTimers
  /\ Becomes(onBlur([Event(This) EXCEPT !.elmFocused = FALSE]))
  /\ UNCHANGED <<regVars, whoVars, navVars>>

BlurTimer ==
  /\ Ready
  /\ \E id \in timers : \E sel \in Selection(value) :
       Becomes(blurTimer(Event(This), id, sel))
  /\ UNCHANGED <<regVars, whoVars, navVars>>

KeyDown ==
  /\ Ready
  /\ \E e \in KeyEvents : \E sel \in Selection(value) :
       /\ Fits(onKeyDown(Event(This), e, sel))
       /\ Becomes(onKeyDown(Event(This), e, sel))
  /\ UNCHANGED <<regVars, whoVars, navVars>>

KeyUp ==
  /\ Ready
  /\ \E key \in Keys : \E sel \in Selection(value) :
       Becomes(onKeyUp(Event(This), key, sel))
  /\ UNCHANGED <<regVars, whoVars, navVars>>

Paste ==
  /\ Ready
  /\ \E sel \in Selection(value) : Becomes(onPaste(Event(This), sel))
  /\ UNCHANGED <<regVars, whoVars, navVars>>

\* The user changes the text of the nested input.
Typed ==
  /\ Ready
  /\ \E text \in Texts : Becomes(typed(This, text))
  /\ UNCHANGED <<regVars, whoVars, navVars>>

CompositionUpdate ==
  /\ Ready
  /\ \E text \in Texts : \E sel \in Selection(text) :
       Becomes(onCompositionUpdate(Event(This), text, sel))
  /\ UNCHANGED <<regVars, whoVars, navVars>>

\* A click on one of the suggestions the panel shows.
Click ==
  /\ Ready
  /\ showSuggestions(This)
  /\ \E i \in 1..Len(suggestions(This)) :
       /\ Fits(onClick(Event(This), suggestions(This)[i]))
       /\ Becomes(onClick(Event(This), suggestions(This)[i]))
  /\ UNCHANGED <<regVars, whoVars, navVars>>

\* The picker emits 'emoji' with { insertion, spamMode }.
Insertions == {<<"a">>, <<"a", " ">>}

Insert ==
  /\ Ready
  /\ \E insertion \in Insertions : \E spam \in BOOLEAN :
       /\ Fits(insert(Event(This), insertion, spam))
       /\ Becomes(insert(Event(This), insertion, spam))
  /\ UNCHANGED <<regVars, whoVars, navVars>>

Replacements == {<<"a">>, <<"a", "a", "a">>}

Replace ==
  /\ Ready
  /\ \E replacement \in Replacements :
       /\ Fits(replace(Event(This), replacement))
       /\ Becomes(replace(Event(This), replacement))
  /\ UNCHANGED <<regVars, whoVars, navVars>>

NextTick ==
  /\ tick.pending
  /\ \E sel \in Selection(value) : Becomes(nextTick(This, sel))
  /\ UNCHANGED <<regVars, whoVars, navVars>>

TriggerShowPicker ==
  /\ Ready
  /\ clickTimers < MaxClickTimers
  /\ Becomes(triggerShowPicker(Event(This)))
  /\ UNCHANGED <<regVars, whoVars, navVars>>

ClickTimer ==
  /\ Ready
  /\ clickTimers > 0
  /\ Becomes(clickTimer(Event(This)))
  /\ UNCHANGED <<regVars, whoVars, navVars>>

TogglePicker ==
  /\ Ready
  /\ \E sel \in Selection(value) : Becomes(togglePicker(Event(This), sel))
  /\ UNCHANGED <<regVars, whoVars, navVars>>

ClickOutside ==
  /\ Ready
  /\ Becomes(onClickOutside(Event(This)))
  /\ UNCHANGED <<regVars, whoVars, navVars>>

StickerUploaded ==
  /\ Ready
  /\ Becomes(onStickerUploaded(Event(This)))
  /\ UNCHANGED <<regVars, whoVars, navVars>>

StickerUploadFailed ==
  /\ Ready
  /\ Becomes(onStickerUploadFailed(Event(This)))
  /\ UNCHANGED <<regVars, whoVars, navVars>>

InitEmojiInput ==
  /\ value \in Texts
  /\ caret = 0
  /\ highlighted = 0
  /\ focused = FALSE
  /\ blurTimeout = 0
  /\ showPicker = FALSE
  /\ temporarilyHideSuggestions = FALSE
  /\ spamMode = FALSE
  /\ disableClickOutside = FALSE
  /\ timers = {}
  /\ clickTimers = 0
  /\ tick = NoTick
  /\ elmFocused = FALSE
  /\ prevented = FALSE

(***************************************************************************)
(* registration.  user, error and registering are the data fields.         *)
(* requests counts the register() promises that have not yet resolved,     *)
(* responses[e] the not-ok responses with error e in their body whose      *)
(* json() promise has not yet resolved.  handling is the position inside   *)
(* the continuation of an ok response: "idle" outside it, "dispatched"     *)
(* after the loginUser dispatch, "pushed" after the router push.           *)
(* registered is the user object of the latest register() call, logins and *)
(* pushes count the loginUser dispatches and the pushes of '/main/all',    *)
(* okSeen the ok responses that have arrived.                              *)
(***************************************************************************)
\* most submissions whose promises have not all resolved
MaxRequests == 2
\* most ok responses in one run
MaxLogins == 2

Names == {"alice", "bob"}

Errors == {"taken", "invalid"}

Reg ==
  [user |-> user, error |-> error, registering |-> registering,
   requests |-> requests, responses |-> responses, handling |-> handling,
   registered |-> registered, logins |-> logins, pushes |-> pushes,
   okSeen |-> okSeen]

RegBecomes(s) ==
  /\ user' = s.user
  /\ error' = s.error
  /\ registering' = s.registering
  /\ requests' = s.requests
  /\ responses' = s.responses
  /\ handling' = s.handling
  /\ registered' = s.registered
  /\ logins' = s.logins
  /\ pushes' = s.pushes
  /\ okSeen' = s.okSeen

\* The form writes the user name into this.user.
setUsername(s, name) == [s EXCEPT !.user.username = name]

\* submit () without the copy of username into nickname.
submit_keepsNickname(s) ==
  LET s1 == [s EXCEPT !.registering = TRUE]
  IN  [s1 EXCEPT !.registered = s1.user, !.requests = @ + 1]

\* submit (), up to the register() call.
submit(s) ==
  LET s1 == [s EXCEPT !.registering = TRUE]
      s2 == [s1 EXCEPT !.user.nickname = s1.user.username]
  IN  [s2 EXCEPT !.registered = s2.user, !.requests = @ + 1]

\* The continuation of register(): response.ok, first statement.
dispatchLoginUser(s) ==
  [s EXCEPT !.requests = @ - 1, !.okSeen = @ + 1,
            !.logins = @ + 1, !.handling = "dispatched"]

\* response.ok, second statement.
routerPush(s) == [s EXCEPT !.pushes = @ + 1, !.handling = "pushed"]

\* response.ok, third statement.
resetRegistering(s) == [s EXCEPT !.registering = FALSE, !.handling = "idle"]

\* The not-ok branch without the reset of registering.
responseNotOk_keepsRegistering(s, err) ==
  [s EXCEPT !.requests = @ - 1, !.responses[err] = @ + 1]

\* The continuation of register(): the response is not ok and its body,
\* once parsed, holds the error err.
responseNotOk(s, err) ==
  [s EXCEPT !.requests = @ - 1, !.registering = FALSE,
            !.responses[err] = @ + 1]

\* The continuation of response.json().
jsonResolved(s, err) ==
  [s EXCEPT !.responses[err] = @ - 1, !.error = err]

SetUsername ==
  /\ handling = "idle"
  /\ \E name \in Names : RegBecomes(setUsername(Reg, name))
  /\ UNCHANGED <<emojiVars, whoVars, navVars>>

\* The promises in flight: register() and response.json().
InFlight(s) ==
  LET RECURSIVE Sum(_)
      Sum(E) == IF E = {} THEN 0
                ELSE LET e == CHOOSE x \in E : TRUE
                     IN  s.responses[e] + Sum(E \ {e})
  IN  s.requests + Sum(Errors)

Submit ==
  /\ handling = "idle"
  /\ InFlight(Reg) < MaxRequests
  /\ RegBecomes(submit(Reg))
  /\ UNCHANGED <<emojiVars, whoVars, navVars>>

ResponseOk ==
  /\ handling = "idle"
  /\ requests > 0
  /\ okSeen < MaxLogins
  /\ RegBecomes(dispatchLoginUser(Reg))
  /\ UNCHANGED <<emojiVars, whoVars, navVars>>

RouterPush ==
  /\ handling = "dispatched"
  /\ RegBecomes(routerPush(Reg))
  /\ UNCHANGED <<emojiVars, whoVars, navVars>>

ResetRegistering ==
  /\ handling = "pushed"
  /\ RegBecomes(resetRegistering(Reg))
  /\ UNCHANGED <<emojiVars, whoVars, navVars>>

ResponseNotOk ==
  /\ handling = "idle"
  /\ requests > 0
  /\ \E err \in Errors : RegBecomes(responseNotOk(Reg, err))
  /\ UNCHANGED <<emojiVars, whoVars, navVars>>

JsonResolved(err) ==
  /\ handling = "idle"
  /\ responses[err] > 0
  /\ RegBecomes(jsonResolved(Reg, err))
  /\ UNCHANGED <<emojiVars, whoVars, navVars>>

JsonResolve == \E err \in Errors : JsonResolved(err)

InitRegistration ==
  /\ user = [username |-> Undefined, nickname |-> Undefined]
  /\ error = "false"
  /\ registering = FALSE
  /\ requests = 0
  /\ responses = [err \in Errors |-> 0]
  /\ handling = "idle"
  /\ registered = [username |-> Undefined, nickname |-> Undefined]
  /\ logins = 0
  /\ pushes = 0
  /\ okSeen = 0

(***************************************************************************)
(* WhoToFollow.  The data field users, the credentials of the store's      *)
(* current user as mounted() finds them, and the promises in flight:       *)
(* suggestionsPending counts the suggestions requests that await their     *)
(* reply (suggestionsRequests all that were made), lookups holds one       *)
(* externalProfile promise per pushed user, with the screen name it was    *)
(* called with, the user object its continuation captured (as the index    *)
(* of that object in users) and, once fulfilled, the value it returned.    *)
(* newUsers are the payloads committed with addNewUsers.                   *)
(***************************************************************************)
\* most items in one suggestions reply
MaxReply == 2

Accts == {"alice@a", "bob@b"}

Avatars == {"", "alice.png"}

Credentials == {Undefined, "token"}

DisplayName(acct) == IF acct = "alice@a" THEN "Alice" ELSE "Bob"

\* The items of a suggestions reply: { display_name, acct, avatar }.
ReplyItems ==
  {[display_name |-> DisplayName(a), acct |-> a, avatar |-> v] :
     a \in Accts, v \in Avatars}

Replies == UNION {[1..n -> ReplyItems] : n \in 0..MaxReply}

\* The backend's profile ids.
ProfileId(screen_name) == IF screen_name = "alice@a" THEN 11 ELSE 12

\* What externalProfile(screen_name) can return: the profile, or an object
\* with an error (it has no id; the field is not read then).
ExternalUsers(screen_name) ==
  {[error |-> Undefined, id |-> ProfileId(screen_name),
    screen_name |-> screen_name],
   [error |-> "not found", id |-> 0, screen_name |-> screen_name]}

NoExternalUser == [error |-> Undefined, id |-> 0, screen_name |-> ""]

Who ==
  [users |-> users, credentials |-> credentials, mounted |-> mounted,
   suggestionsRequests |-> suggestionsRequests,
   suggestionsPending |-> suggestionsPending,
   lookups |-> lookups, newUsers |-> newUsers]

WhoBecomes(s) ==
  /\ users' = s.users
  /\ credentials' = s.credentials
  /\ mounted' = s.mounted
  /\ suggestionsRequests' = s.suggestionsRequests
  /\ suggestionsPending' = s.suggestionsPending
  /\ lookups' = s.lookups
  /\ newUsers' = s.newUsers

\* const user = { id: 0, name, screen_name, profile_image_url }
newUser(i) ==
  [id |-> 0, name |-> i.display_name, screen_name |-> i.acct,
   profile_image_url |-> IF i.avatar # "" THEN i.avatar
                         ELSE "/images/avi.png"]

\* externalProfile(user.screen_name).then(...) for the user pushed at index.
newLookup(pushed, index) ==
  [screen_name |-> pushed.screen_name, user |-> index,
   fulfilled |-> FALSE, value |-> NoExternalUser]

\* One round of reply.forEach: push the user, start its lookup.
pushUser(s, i) ==
  [s EXCEPT !.users = Append(@, newUser(i)),
            !.lookups = Append(@, newLookup(newUser(i), Len(s.users) + 1))]

RECURSIVE forEach(_, _, _)
forEach(s, reply, n) ==
  IF n > Len(reply) THEN s ELSE forEach(pushUser(s, reply[n]), reply, n + 1)

showWhoToFollow(s, reply) == forEach(s, reply, 1)

\* The continuation of apiService.suggestions().
suggestionsThen(s, reply) ==
  showWhoToFollow([s EXCEPT !.suggestionsPending = @ - 1], reply)

getWhoToFollow(s) ==
  IF s.credentials # Undefined
  THEN [s EXCEPT !.suggestionsRequests = @ + 1, !.suggestionsPending = @ + 1]
  ELSE s

\* mounted () with the credentials the store holds then.
mountedWith(s, c) ==
  getWhoToFollow([s EXCEPT !.mounted = TRUE, !.credentials = c])

\* The continuation that writes the id into the user pushed last.
externalProfileThen_lastUser(s, l, externalUser) ==
  IF externalUser.error = Undefined
  THEN [s EXCEPT !.newUsers = Append(@, externalUser),
                 !.users[Len(s.users)].id = externalUser.id,
                 !.lookups[l].fulfilled = TRUE,
                 !.lookups[l].value = externalUser]
  ELSE [s EXCEPT !.lookups[l].fulfilled = TRUE,
                 !.lookups[l].value = externalUser]

\* The continuation of lookup l: .then((externalUser) => { ... }).
externalProfileThen(s, l, externalUser) ==
  IF externalUser.error = Undefined
  THEN [s EXCEPT !.newUsers = Append(@, externalUser),
                 !.users[s.lookups[l].user].id = externalUser.id,
                 !.lookups[l].fulfilled = TRUE,
                 !.lookups[l].value = externalUser]
  ELSE [s EXCEPT !.lookups[l].fulfilled = TRUE,
                 !.lookups[l].value = externalUser]

Mounted ==
  /\ ~mounted
  /\ \E c \in Credentials : WhoBecomes(mountedWith(Who, c))
  /\ UNCHANGED <<emojiVars, regVars, navVars>>

SuggestionsReply ==
  /\ suggestionsPending > 0
  /\ \E reply \in Replies : WhoBecomes(suggestionsThen(Who, reply))
  /\ UNCHANGED <<emojiVars, regVars, navVars>>

\* The lookups fulfil in any order.
ExternalProfileReply ==
  /\ \E l \in 1..Len(lookups) :
       /\ ~lookups[l].fulfilled
       /\ \E externalUser \in ExternalUsers(lookups[l].screen_name) :
            WhoBecomes(externalProfileThen(Who, l, externalUser))
  /\ UNCHANGED <<emojiVars, regVars, navVars>>

InitWhoToFollow ==
  /\ users = << >>
  /\ credentials = Undefined
  /\ mounted = FALSE
  /\ suggestionsRequests = 0
  /\ suggestionsPending = 0
  /\ lookups = << >>
  /\ newUsers = << >>

(***************************************************************************)
(* NavPanel.  The store state pinnedList reads: the pinnedNavItems         *)
(* collection (an array of names, which may repeat one) and the user's     *)
(* list entries; navigation is the value of pinnedList, what               *)
(* filterNavigation returned, when it was evaluated last (it is evaluated  *)
(* again when the store state it read changes).  An object is the sequence *)
(* of its entries, in the order Object.entries gives them.                 *)
(* filterNavigation (components/navigation/filter.js) is not among the     *)
(* source files: it is taken to return some of the entries it is given,    *)
(* in their order; which ones is its choice, given the list and options.   *)
(***************************************************************************)
\* most names in the pinnedNavItems collection
MaxPinned == 3

TIMELINES ==
  <<[key |-> "home",
     value |-> [name |-> Undefined, route |-> "friends", icon |-> "home"]],
    [key |-> "public",
     value |-> [name |-> "timeline", route |-> "public-timeline",
                icon |-> "users"]]>>

ROOT_ITEMS ==
  <<[key |-> "interactions",
     value |-> [name |-> Undefined, route |-> "interactions",
                icon |-> "bell"]],
    [key |-> "about",
     value |-> [name |-> "item", route |-> "about",
                icon |-> "info-circle"]]>>

\* The entry getListEntries makes of a list of the user.
ListEntries ==
  {[name |-> "list-1", route |-> "lists-timeline", icon |-> "A"]}

\* The names the collection can hold: both timelines, a root item and a
\* list, which names nothing while the user has no such list.
PinNames == {"home", "public", "about", "list-1"}

Nav == [pinnedNavItems |-> pinnedNavItems, lists |-> lists,
        navigation |-> navigation]

NavBecomes(s) ==
  /\ pinnedNavItems' = s.pinnedNavItems
  /\ lists' = s.lists
  /\ navigation' = s.navigation

\* new Set(state.serverSideStorage.prefsStorage.collections.pinnedNavItems)
pinnedItems(s) == {s.pinnedNavItems[i] : i \in 1..Len(s.pinnedNavItems)}

\* ([k, v]) => ({ name: k, ...v }): a name of v wins over the key.
withName_keepsOwn(entry) ==
  IF entry.value.name # Undefined
  THEN entry.value
  ELSE [entry.value EXCEPT !.name = entry.key]

\* ([k, v]) => ({ ...v, name: k })
withName(entry) == [entry.value EXCEPT !.name = entry.key]

RECURSIVE map(_, _)
map(entries, n) ==
  IF n > Len(entries)
  THEN << >>
  ELSE <<withName(entries[n])>> \o map(entries, n + 1)

\* Object.entries({ ...object }).filter(([k]) => has(k)).map(...)
pinnedEntries(object, items) ==
  map(SelectSeq(object, LAMBDA entry : entry.key \in items), 1)

\* this.lists.filter((k) => this.pinnedItems.has(k.name))
pinnedLists(ls, items) == SelectSeq(ls, LAMBDA k : k.name \in items)

\* The first argument of filterNavigation.
pinnedListOf(s, items) ==
  pinnedEntries(TIMELINES, items) \o pinnedLists(s.lists, items)
    \o pinnedEntries(ROOT_ITEMS, items)

filterArgument(s) == pinnedListOf(s, pinnedItems(s))

\* The second argument of filterNavigation.  NavPanel has no property
\* 'private' (mapState defines privateMode): isPrivate is undefined.
filterOptions ==
  [hasChats |-> TRUE, isFederating |-> TRUE, isPrivate |-> Undefined,
   currentUser |-> "user"]

\* The choices filterNavigation has with a list: the indices it keeps.
Kept(list) == SUBSET (1..Len(list))

RECURSIVE keep(_, _, _)
keep(list, kept, n) ==
  IF n > Len(list)
  THEN << >>
  ELSE (IF n \in kept THEN <<list[n]>> ELSE << >>) \o keep(list, kept, n + 1)

filterNavigation(list, options, kept) == keep(list, kept, 1)

\* pinnedList (), with the entries filterNavigation keeps of its list.
pinnedList(s, kept) ==
  filterNavigation(filterArgument(s), filterOptions, kept)

\* The component evaluates pinnedList for the changed store state.
evaluated(s, kept) == [s EXCEPT !.navigation = pinnedList(s, kept)]

\* The store appends a name to the collection.
pinItem(s, name) == [s EXCEPT !.pinnedNavItems = Append(@, name)]

\* The store removes a name from the collection.
unpinItem(s, name) ==
  [s EXCEPT !.pinnedNavItems = SelectSeq(@, LAMBDA n : n # name)]

\* The user makes a list: the store's lists gain its entry.
addList(s, entry) == [s EXCEPT !.lists = Append(@, entry)]

\* The user deletes a list.
removeList(s, entry) == [s EXCEPT !.lists = SelectSeq(@, LAMBDA k : k # entry)]

PinItem ==
  /\ Len(pinnedNavItems) < MaxPinned
  /\ \E name \in PinNames :
       \E kept \in Kept(filterArgument(pinItem(Nav, name))) :
         NavBecomes(evaluated(pinItem(Nav, name), kept))
  /\ UNCHANGED <<emojiVars, regVars, whoVars>>

UnpinItem ==
  /\ \E name \in pinnedItems(Nav) :
       \E kept \in Kept(filterArgument(unpinItem(Nav, name))) :
         NavBecomes(evaluated(unpinItem(Nav, name), kept))
  /\ UNCHANGED <<emojiVars, regVars, whoVars>>

\* The lists of the store: each list has one entry.
ListsOf(s) == {s.lists[i] : i \in 1..Len(s.lists)}

AddList ==
  /\ \E entry \in ListEntries \ ListsOf(Nav) :
       \E kept \in Kept(filterArgument(addList(Nav, entry))) :
         NavBecomes(evaluated(addList(Nav, entry), kept))
  /\ UNCHANGED <<emojiVars, regVars, whoVars>>

RemoveList ==
  /\ \E entry \in ListsOf(Nav) :
       \E kept \in Kept(filterArgument(removeList(Nav, entry))) :
         NavBecomes(evaluated(removeList(Nav, entry), kept))
  /\ UNCHANGED <<emojiVars, regVars, whoVars>>

InitNavPanel ==
  /\ pinnedNavItems = << >>
  /\ lists = << >>
  /\ navigation = << >>

Init ==
  InitEmojiInput /\ InitRegistration /\ InitWhoToFollow /\ InitNavPanel

NextEmojiInput ==
  \/ Focus
  \/ Blur
  \/ BlurTimer
  \/ KeyDown
  \/ KeyUp
  \/ Paste
  \/ Typed
  \/ CompositionUpdate
  \/ Click
  \/ Insert
  \/ Replace
  \/ NextTick
  \/ TriggerShowPicker
  \/ ClickTimer
  \/ TogglePicker
  \/ ClickOutside
  \/ StickerUploaded
  \/ StickerUploadFailed

SpecEmojiInput == Init /\ [][NextEmojiInput]_vars

NextRegistration ==
  \/ SetUsername
  \/ Submit
  \/ ResponseOk
  \/ RouterPush
  \/ ResetRegistering
  \/ ResponseNotOk
  \/ JsonResolve

\* A continuation that has started runs to its end, and a response body
\* that has arrived is parsed: every pending json() promise resolves.
FairRegistration ==
  /\ WF_vars(RouterPush)
  /\ WF_vars(ResetRegistering)
  /\ \A err \in Errors : WF_vars(JsonResolved(err))

SpecRegistration == Init /\ [][NextRegistration]_vars /\ FairRegistration

NextWhoToFollow ==
  \/ Mounted
  \/ SuggestionsReply
  \/ ExternalProfileReply

SpecWhoToFollow == Init /\ [][NextWhoToFollow]_vars

NextNavPanel ==
  \/ PinItem
  \/ UnpinItem
  \/ AddList
  \/ RemoveList

SpecNavPanel == Init /\ [][NextNavPanel]_vars

(***************************************************************************)
(* EmojiInput: properties.                                                 *)
(***************************************************************************)
ArrowDown == [key |-> "ArrowDown", shiftKey |-> FALSE, ctrlKey |-> FALSE]

ArrowUp == [key |-> "ArrowUp", shiftKey |-> FALSE, ctrlKey |-> FALSE]

\* C1: with more than one suggestion cycleForward (ArrowDown while the
\* hotkeys are on) goes from the last index to 0 and otherwise one up,
\* cycleBackward (ArrowUp) goes from 0 to the last index and otherwise one
\* down; with 0 or 1 suggestions both set highlighted to 0.
C1_CyclingWraps ==
  [][LET len == Len(suggestions(This))
         forward == IF len <= 1 THEN 0
                    ELSE IF highlighted = len - 1 THEN 0
                    ELSE highlighted + 1
         backward == IF len <= 1 THEN 0
                     ELSE IF highlighted = 0 THEN len - 1
                     ELSE highlighted - 1
     IN  (Ready /\ ~temporarilyHideSuggestions)
           => /\ highlighted' # forward
                   => ~(\E sel \in Selection(value) :
                          Becomes(onKeyDown(Event(This), ArrowDown, sel)))
              /\ highlighted' # backward
                   => ~(\E sel \in Selection(value) :
                          Becomes(onKeyDown(Event(This), ArrowUp, sel)))
    ]_vars

\* C2: the caret lies within the text in every reachable state:
\* 0 <= caret <= length(value).
C2_CaretWithinText == 0 <= caret /\ caret <= Len(value)

\* C4: focused falls only when the input was blurred after its last focus
\* event: no blur timer of an earlier onBlur fires once onFocus has run.
C4_FocusKeptUntilNextBlur ==
  [][(focused /\ ~focused') => blurTimeout # 0]_vars

\* C5: suggestions is empty when the text at the caret has at most one
\* character or suggest finds nothing; otherwise it is the first min(5, n)
\* results of suggest, in order, with img = imageUrl or '' and highlighted
\* true exactly on the entry whose index is highlighted.
C5_SuggestionsList ==
  LET text == textAtCaret(This)
      found == suggest(text)
      list == suggestions(This)
  IN  IF Len(text) <= 1 \/ Len(found) = 0
      THEN list = << >>
      ELSE /\ Len(list) = Min(5, Len(found))
           /\ \A i \in 1..Len(list) :
                /\ list[i].displayText = found[i].displayText
                /\ list[i].replacement = found[i].replacement
                /\ list[i].img = IF found[i].imageUrl = Undefined
                                 THEN ""
                                 ELSE found[i].imageUrl
                /\ list[i].highlighted = (i - 1 = highlighted)

C5_Witness ==
  /\ Len(suggest(textAtCaret(This))) = 6
  /\ Len(suggestions(This)) = 5
  /\ highlighted = 3
  /\ suggestions(This)[4].highlighted
  /\ suggestions(This)[3].img = ""

Enter == [key |-> "Enter", shiftKey |-> FALSE, ctrlKey |-> FALSE]

\* C6: whenever the suggestion list is not empty, highlighted is an index
\* into it, exactly one suggestion is flagged highlighted, and Enter
\* selects an existing suggestion.
C6_HighlightedIsIndex ==
  (Ready /\ Len(suggestions(This)) > 0)
    => /\ 0 <= highlighted
       /\ highlighted < Len(suggestions(This))
       /\ Cardinality({i \in 1..Len(suggestions(This)) :
                         suggestions(This)[i].highlighted}) = 1
       /\ ~temporarilyHideSuggestions
            => ~onKeyDown(Event(This), Enter, caret).threw

HotKeys ==
  {e \in KeyEvents : e.key \in {"Tab", "ArrowUp", "ArrowDown", "Enter"}}

\* C9: where showSuggestions is false, a keydown of Tab, Shift+Tab,
\* ArrowUp, ArrowDown or Enter changes neither highlighted nor the value
\* and does not prevent the default action.
C9_HotkeysOffWhenHidden ==
  [][(/\ Ready
      /\ ~showSuggestions(This)
      /\ (highlighted' # highlighted \/ value' # value \/ prevented'))
       => ~(\E e \in HotKeys : \E sel \in Selection(value) :
              Becomes(onKeyDown(Event(This), e, sel)))
    ]_vars

\* C10: a keyup of Escape sets temporarilyHideSuggestions, which hides the
\* suggestions; it is reset only by a keyup of another key or by a focus
\* event (one the user causes or one elm.focus() dispatches).
C10_EscapeHides ==
  /\ [](Ready =>
          \A sel \in Selection(value) :
            LET after == onKeyUp(Event(This), "Escape", sel)
            IN  /\ after.temporarilyHideSuggestions
                /\ ~showSuggestions(after))
  /\ [][(temporarilyHideSuggestions /\ ~temporarilyHideSuggestions')
          => \/ \E key \in Keys \ {"Escape"} : \E sel \in Selection(value) :
                  Becomes(onKeyUp(Event(This), key, sel))
             \/ Focus
             \/ (~elmFocused /\ elmFocused')
       ]_vars

\* Suggestions hidden by Escape although the input is focused on a word
\* with suggestions, and a keydown has been handled since.
C10_Witness ==
  /\ temporarilyHideSuggestions
  /\ focused
  /\ Len(suggestions(This)) > 1
  /\ ~showPicker
  /\ highlighted > 0
  /\ timers # {}

\* The picker is closed after every keydown.
PickerClosedAfterKeyDown ==
  \A e \in KeyEvents : \A sel \in Selection(value) :
    ~onKeyDown(Event(This), e, sel).showPicker

\* The picker is closed after every input, compositionupdate,
\* sticker-uploaded and sticker-upload-failed event.
PickerClosedAfterInput ==
  /\ \A text \in Texts : ~typed(Event(This), text).showPicker
  /\ \A text \in Texts : \A sel \in Selection(text) :
       ~onCompositionUpdate(Event(This), text, sel).showPicker
  /\ ~onStickerUploaded(Event(This)).showPicker
  /\ ~onStickerUploadFailed(Event(This)).showPicker

\* The picker is closed after a focus event unless spamMode is true.
PickerClosedAfterFocus ==
  \A sel \in Selection(value) :
    onFocus([Event(This) EXCEPT !.elmFocused = TRUE], sel).showPicker
      => spamMode

\* After insert and its deferred re-focus an open picker is still open
\* where spamMode was true, and the picker is closed where it was false.
PickerAfterInsert ==
  \A insertion \in Insertions :
    \A sel \in Selection(insert(Event(This), insertion, TRUE).value) :
      /\ showPicker
           => nextTick(insert(Event(This), insertion, TRUE), sel).showPicker
      /\ ~nextTick(insert(Event(This), insertion, FALSE), sel).showPicker

\* C11: the picker is closed right after every keydown, input,
\* compositionupdate, sticker-uploaded and sticker-upload-failed event and
\* after a focus event unless spamMode is true; insert with spamMode true
\* leaves an open picker open after the deferred re-focus, insert with
\* spamMode false closes it; the suggestion panel and the picker are never
\* shown together.
C11_PickerClosed ==
  /\ Ready
       => /\ PickerClosedAfterKeyDown
          /\ PickerClosedAfterInput
          /\ PickerClosedAfterFocus
          /\ PickerAfterInsert
  /\ ~(showSuggestions(This) /\ showPicker)

(***************************************************************************)
(* registration: properties.                                               *)
(***************************************************************************)
\* C3, as stated: whenever the body of a not-ok response has been parsed,
\* error is the error value of that body and registering is false.
C3_ErrorShownWhileNotRegistering ==
  [][\A err \in Errors :
       responses'[err] < responses[err]
         => (error' = err /\ registering' = FALSE)]_vars

\* C3, amended: a not-ok response resets registering when it arrives; its
\* body is eventually parsed and error is then the error value of that
\* body; registering is false at that moment unless a request of a later
\* submit is awaiting its response.
C3_ErrorShown ==
  /\ [][\A err \in Errors :
          /\ responses'[err] > responses[err] => registering' = FALSE
          /\ responses'[err] < responses[err]
               => (error' = err /\ (registering' = FALSE \/ requests' > 0))
       ]_vars
  /\ \A err \in Errors : (responses[err] > 0) ~> (error = err)

C3_Witness ==
  /\ error \in Errors
  /\ registering = FALSE
  /\ requests = 0
  /\ \A err \in Errors : responses[err] = 0

\* C7: registering is true whenever a register() call is awaiting its
\* response.
C7_RegisteringWhileInFlight == requests > 0 => registering = TRUE

\* C8: the user passed to register() has nickname = username; loginUser
\* is dispatched and '/main/all' pushed exactly for an ok response, the
\* dispatch first, the push second, the reset of registering last; an ok
\* response leaves error unchanged.
C8_OkResponseOrder ==
  [][/\ requests' > requests
          => registered'.nickname = registered'.username
     /\ logins' # logins
          => /\ logins' = logins + 1
             /\ okSeen' = okSeen + 1
             /\ requests' = requests - 1
             /\ pushes' = pushes
             /\ registering' = registering
     /\ pushes' # pushes
          => /\ pushes' = pushes + 1
             /\ logins' = pushes'
             /\ okSeen' = okSeen
             /\ registering' = registering
     /\ okSeen' # okSeen => logins' # logins
     /\ handling' = "idle" => (logins' = okSeen' /\ pushes' = okSeen')
     /\ (handling # "idle" /\ handling' = "idle") => registering' = FALSE
     /\ (handling # "idle" \/ handling' # "idle") => error' = error
    ]_vars

C8_Witness ==
  /\ handling = "idle"
  /\ logins = 2
  /\ pushes = 2
  /\ registered.username \in Names
  /\ error \in Errors
  /\ registering = FALSE


(***************************************************************************)
(* WhoToFollow: properties.                                                *)
(***************************************************************************)
\* The lookups that have returned a profile, not an error.
Found == {l \in 1..Len(lookups) :
            lookups[l].fulfilled /\ lookups[l].value.error = Undefined}

\* C12: showWhoToFollow appends one entry per reply item, in reply order,
\* each with id 0; in whatever order the lookups return, an entry has the
\* id of the profile returned for its own screen name exactly when its
\* lookup returned no error, and addNewUsers was committed with that
\* profile exactly then; all other entries keep id 0; without credentials
\* no suggestions request is made.
C12_WhoToFollow ==
  /\ suggestionsPending > 0
       => \A reply \in Replies :
            LET after == suggestionsThen(Who, reply).users
            IN  /\ Len(after) = Len(users) + Len(reply)
                /\ \A i \in 1..Len(users) : after[i] = users[i]
                /\ \A i \in 1..Len(reply) :
                     /\ after[Len(users) + i].id = 0
                     /\ after[Len(users) + i].screen_name = reply[i].acct
                     /\ after[Len(users) + i].name = reply[i].display_name
  /\ Len(lookups) = Len(users)
  /\ \A i \in 1..Len(users) :
       /\ lookups[i].screen_name = users[i].screen_name
       /\ IF i \in Found
          THEN /\ users[i].id = lookups[i].value.id
               /\ users[i].id = ProfileId(users[i].screen_name)
               /\ lookups[i].value.screen_name = users[i].screen_name
               /\ \E n \in 1..Len(newUsers) : newUsers[n] = lookups[i].value
          ELSE users[i].id = 0
  /\ Len(newUsers) = Cardinality(Found)
  /\ credentials = Undefined => suggestionsRequests = 0

\* Two entries with different screen names whose lookups have both
\* returned, the first an error and the second a profile.
C12_Witness ==
  /\ Len(users) = 2
  /\ users[1].screen_name # users[2].screen_name
  /\ lookups[1].fulfilled
  /\ lookups[2].fulfilled
  /\ users[1].id = 0
  /\ users[2].id = ProfileId(users[2].screen_name)
  /\ Len(newUsers) = 1


(***************************************************************************)
(* NavPanel: properties.                                                   *)
(***************************************************************************)
KeysOf(object) == {object[i].key : i \in 1..Len(object)}

\* How often list holds an entry that is value under the name key.
Times(list, key, entry) ==
  Cardinality({i \in 1..Len(list) :
                 list[i] = [entry EXCEPT !.name = key]})

\* The entries of an object, and of the user's lists, whose key or name is
\* in the collection.
Pinned(entries) ==
  {i \in 1..Len(entries) : entries[i].key \in pinnedItems(Nav)}

PinnedOfLists == {i \in 1..Len(lists) : lists[i].name \in pinnedItems(Nav)}

\* C13: the list pinnedList passes to filterNavigation holds exactly the
\* timelines, lists and root items whose key or name is in pinnedNavItems,
\* each once, the timelines first, then the lists, then the root items,
\* and every timeline and root item has its key as its name.
C13_PinnedList ==
  LET list == filterArgument(Nav)
      t == Cardinality(Pinned(TIMELINES))
      l == Cardinality(PinnedOfLists)
      r == Cardinality(Pinned(ROOT_ITEMS))
  IN  /\ Len(list) = t + l + r
      /\ \A i \in 1..Len(list) : list[i].name \in pinnedItems(Nav)
      /\ \A i \in 1..Len(TIMELINES) :
           Times(list, TIMELINES[i].key, TIMELINES[i].value)
             = IF i \in Pinned(TIMELINES) THEN 1 ELSE 0
      /\ \A i \in 1..Len(lists) :
           Times(list, lists[i].name, lists[i])
             = IF i \in PinnedOfLists THEN 1 ELSE 0
      /\ \A i \in 1..Len(ROOT_ITEMS) :
           Times(list, ROOT_ITEMS[i].key, ROOT_ITEMS[i].value)
             = IF i \in Pinned(ROOT_ITEMS) THEN 1 ELSE 0
      /\ \A i \in 1..t : list[i].name \in KeysOf(TIMELINES)
      /\ \A i \in (t + 1)..(t + l) :
           \E j \in PinnedOfLists : list[i] = lists[j]
      /\ \A i \in (t + l + 1)..(t + l + r) :
           list[i].name \in KeysOf(ROOT_ITEMS)

\* A root item, a list and a timeline pinned in this order: the list
\* passed holds the timeline first and the root item last, the timeline's
\* own name has given way to its key, and filterNavigation has kept all
\* three.
C13_Witness ==
  /\ pinnedNavItems = <<"about", "list-1", "public">>
  /\ Len(lists) = 1
  /\ filterArgument(Nav)[1].name = "public"
  /\ filterArgument(Nav)[2].name = "list-1"
  /\ filterArgument(Nav)[3].name = "about"
  /\ navigation = filterArgument(Nav)

=============================================================================
